---- MODULE Spec2Model ----
(***************************************************************************)
(* Typing-session input engine of Tollow                                   *)
(* (src/src/components/TypingPractice.tsx).                                *)
(*                                                                         *)
(* A JavaScript string is a sequence of UTF-16 code units; a code unit is  *)
(* a one-character TLA+ string, "Hi"/"Lo" standing for the two halves of a *)
(* surrogate pair.  Positions are 0-based as in the source, so the source's*)
(* content[i] is content[i + 1] here.  A React state variable is a         *)
(* variable of the model; every DOM event handler runs to completion and   *)
(* is followed by the re-render that rebuilds the handlers' closures, so a *)
(* handler is one action.  The only code that runs with an older closure   *)
(* is the callback handleCompositionEnd hands to setTimeout: it keeps the  *)
(* processInput of the render in which the composition ended.              *)
(*                                                                         *)
(* Spec         every input, composition, key and click handler and the    *)
(*              composition timer, on a two-character reference.           *)
(* SpecEdit     typing, editing keys, clicks and the metrics timer, on the *)
(*              references of the specification's examples.                *)
(* SpecSeek     the click seek for element indices in and out of range.    *)
(* SpecPaste    paste of texts of several characters.                      *)
(* SpecIme      a composition with its pre-edit text and the metrics timer.*)
(* SpecCompose  compositions that end with texts of several characters.    *)
(* SpecTeardown a session torn down and followed by another.               *)
(* SpecEmpty    every handler and both timers on the empty reference.      *)
(* SpecClock    input and compositions while the clock advances and the    *)
(*              metrics timer fires when due.                              *)
(***************************************************************************)
EXTENDS Integers, Sequences, FiniteSets, TLC

VARIABLES
    content,            \* textContent.content, the reference text (a prop)
    currentPosition,    \* useState(0)
    typedMap,           \* useState(new Map()): position -> typed string
    isStarted,          \* useState(false)
    startTime,          \* useState(0)
    wpm,                \* useState(0)
    accuracy,           \* useState(100)
    errors,             \* useState(0)
    isComposing,        \* isComposingRef.current
    compositionBuffer,  \* compositionBufferRef.current
    timeouts,           \* callbacks scheduled by handleCompositionEnd, oldest first
    hiddenText,         \* hiddenInputRef.current.textContent
    interval,           \* intervalRef: when the metrics timer was armed or ran last, 0 if none
    now,                \* Date.now(), in clock ticks
    instance,           \* the component instance: its number, and whether it is mounted
    last,               \* history: the event handled last
    verbatim,           \* history: how much of the reference was typed verbatim
    fwd                 \* history: the state before the latest forward commit

vars == << content, currentPosition, typedMap, isStarted, startTime, wpm,
           accuracy, errors, isComposing, compositionBuffer, timeouts,
           hiddenText, interval, now, instance, last, verbatim, fwd >>

----------------------------------------------------------------------------
(* Bounds of the model *)

MaxTextLen == 2     \* longest text of one paste / input / composition event
MaxTimeouts == 1    \* composition commits that may be pending at once
MaxTime == 2        \* clock ticks after the initial instant
MaxInstances == 2   \* component instances mounted one after the other

----------------------------------------------------------------------------
(* Reference texts and input alphabets *)

RefAB == << "a", " ", "b" >>            \* "a b"
RefCat == << "c", "a", "t" >>           \* "cat"
RefCrLf == << "a", "\r", "\n" >>        \* a line that ends in CR LF
RefTab == << "\t", "\n" >>              \* tab then newline
RefEmoji == << "Hi", "Lo" >>            \* one character outside the BMP
RefANl == << "a", "\n" >>               \* a letter then a newline
RefA == << "a" >>                       \* one letter
RefEmpty == << >>                       \* the empty text

\* the references of the editing specification and of the complete one
EditRefTexts == { RefAB, RefCat, RefCrLf, RefTab, RefEmoji }
RefTexts == { RefANl }

\* the texts a next session is mounted on: the same one, and a shorter one
MountTexts == { RefANl, RefA }

Range(s) == { s[i] : i \in 1..Len(s) }

\* the letter a user types by mistake (in RefANl the "a" is one at position 1)
WrongUnits(ref) ==
    IF ref = RefCat THEN { "o" } ELSE IF ref = RefANl THEN { } ELSE { "x" }

\* white space the reference lacks, and the carriage return
OtherUnits(ref) ==
    IF ref \in { RefCat, RefTab } THEN { " " }
    ELSE IF ref = RefCrLf THEN { "\t" }
    ELSE IF ref = RefANl THEN { " ", "\t", "\r" }
    ELSE { "\n" }

\* code units an input event may carry for reference ref
InputUnits(ref) == Range(ref) \cup WrongUnits(ref) \cup OtherUnits(ref)

\* the texts of 1..n code units over a set of units
RECURSIVE TextsUpTo(_, _)
TextsUpTo(units, n) ==
    IF n = 0 THEN { }
    ELSE LET shorter == TextsUpTo(units, n - 1)
         IN  { << u >> : u \in units } \cup shorter
                \cup { Append(t, u) : t \in shorter, u \in units }

\* a low surrogate never arrives without its high surrogate and vice versa
WellFormed(t) ==
    /\ \A i \in 1..Len(t) : t[i] = "Hi" => (i < Len(t) /\ t[i + 1] = "Lo")
    /\ \A i \in 1..Len(t) : t[i] = "Lo" => (i > 1 /\ t[i - 1] = "Hi")

\* what one key press inserts: one character
InputChars ==
    { << u >> : u \in InputUnits(content) \ { "Hi", "Lo" } }
        \cup (IF "Hi" \in InputUnits(content) THEN { << "Hi", "Lo" >> } ELSE { })

\* what a paste inserts
InputTexts == { t \in TextsUpTo(InputUnits(content), MaxTextLen) : WellFormed(t) }

\* what an input method composes, and leaves in the hidden element: a
\* character of the reference, or nothing when the composition is cancelled
CompositionTexts ==
    { << u >> : u \in Range(content) \ { "Hi", "Lo", "\r" } }
        \cup (IF "Hi" \in Range(content) THEN { << "Hi", "Lo" >> } ELSE { })
        \cup { << >> }

\* the finished text of a composition of several characters: characters of
\* the reference, or nothing when the composition is cancelled
CompositionResults ==
    { t \in TextsUpTo(Range(content) \ { "\r" }, MaxTextLen) : WellFormed(t) }
        \cup { << >> }

\* what an input method shows while it composes (the keys typed so far);
\* no input event and no finished composition of the model carries it
PreeditTexts == { << "n" >>, << "n", "i" >> }

----------------------------------------------------------------------------
(* JavaScript primitives used by the component *)

\* undefined, as a value that differs from every string of the model
Undefined == << "undefined" >>

\* content[i]: a one-unit string, or undefined outside 0..length-1
CharAt(i) == IF i >= 0 /\ i < Len(content) THEN << content[i + 1] >> ELSE Undefined

\* for (const rawCh of text): iteration by code point, a surrogate pair is one element
RECURSIVE CodePoints(_)
CodePoints(t) ==
    IF t = << >> THEN << >>
    ELSE IF Len(t) >= 2 /\ t[1] = "Hi" /\ t[2] = "Lo"
         THEN << << t[1], t[2] >> >> \o CodePoints(SubSeq(t, 3, Len(t)))
         ELSE << << t[1] >> >> \o CodePoints(Tail(t))

\* String.prototype.trim() !== '' : some unit is not white space
WhiteSpaceUnits == { " ", "\n", "\t", "\r" }
TrimNonEmpty(t) == \E i \in 1..Len(t) : t[i] \notin WhiteSpaceUnits

\* (mutant) truncation instead of rounding
RoundPercentTruncate(num, den) == (100 * num) \div den

\* NaN, as a number that is no percentage
NaN == 0 - 1

\* Math.round(num / den * 100) for num >= 0, den > 0 (round half up)
RoundPercent(num, den) == (200 * num + den) \div (2 * den)

\* Map operations
EmptyMap == [ k \in { } |-> << >> ]
MapHas(m, k) == k \in DOMAIN m
MapSet(m, k, v) == [ i \in (DOMAIN m) \cup { k } |-> IF i = k THEN v ELSE m[i] ]
MapDelete(m, k) == [ i \in (DOMAIN m) \ { k } |-> m[i] ]
MapSize(m) == Cardinality(DOMAIN m)

----------------------------------------------------------------------------
(* processInput *)

WhiteSpaceChars == { << " " >>, << "\n" >>, << "\t" >> }

\* (mutant) the loop body without the test of white space against the reference
CommitCharAnyWhiteSpace(rawCh, pos, next) ==
    LET ch == IF rawCh = << "\r" >> THEN << >> ELSE rawCh
    IN  IF ch = << >> THEN [ pos |-> pos, map |-> next ]
        ELSE [ pos |-> pos + 1, map |-> MapSet(next, pos, ch) ]

\* (mutant) the loop body that also drops a letter typed where the
\* reference has white space
CommitCharGuardReference(rawCh, pos, next) ==
    LET srcCh == CharAt(pos)
        ch == IF rawCh = << "\r" >> THEN << >> ELSE rawCh
    IN  IF ch = << >> THEN [ pos |-> pos, map |-> next ]
        ELSE IF (ch \in WhiteSpaceChars \/ srcCh \in WhiteSpaceChars) /\ srcCh # ch
             THEN [ pos |-> pos, map |-> next ]
             ELSE [ pos |-> pos + 1, map |-> MapSet(next, pos, ch) ]

\* (mutant) the loop body that takes a carriage return as any other character
CommitCharKeepsCR(rawCh, pos, next) ==
    LET srcCh == CharAt(pos)
    IN  IF rawCh \in WhiteSpaceChars /\ srcCh # rawCh
        THEN [ pos |-> pos, map |-> next ]
        ELSE [ pos |-> pos + 1, map |-> MapSet(next, pos, rawCh) ]

\* the body of the for loop of processInput, for one element rawCh of the
\* text, at position pos with map next: the position and map after it
CommitChar(rawCh, pos, next) ==
    LET srcCh == CharAt(pos)
        ch == IF rawCh = << "\r" >> THEN << >> ELSE rawCh
    IN  IF ch = << >> THEN [ pos |-> pos, map |-> next ]
        ELSE IF ch \in WhiteSpaceChars /\ srcCh # ch
             THEN [ pos |-> pos, map |-> next ]
             ELSE [ pos |-> pos + 1, map |-> MapSet(next, pos, ch) ]

\* (mutant) the loop without its test of pos against the length
RECURSIVE CommitLoopUnbounded(_, _, _)
CommitLoopUnbounded(cps, pos, next) ==
    IF cps = << >>
    THEN [ pos |-> pos, map |-> next ]
    ELSE LET r == CommitChar(Head(cps), pos, next)
         IN  CommitLoopUnbounded(Tail(cps), r.pos, r.map)

\* the for loop of processInput over the code points cps
RECURSIVE CommitLoop(_, _, _)
CommitLoop(cps, pos, next) ==
    IF cps = << >> \/ pos >= Len(content)
    THEN [ pos |-> pos, map |-> next ]
    ELSE LET r == CommitChar(Head(cps), pos, next)
         IN  CommitLoop(Tail(cps), r.pos, r.map)

\* the metrics effect, run after a render in which isStarted, startTime or
\* typedMap changed (setTypedMap is given a new Map every time): its cleanup
\* clears the interval timer and its body arms a new one
MetricsEffect ==
    interval' = IF isStarted' /\ startTime' > 0 THEN now ELSE 0

\* processInput(text) as built by the render whose state was
\* (currentPosition, typedMap, isStarted) = (cl.pos, cl.map, cl.started)
ProcessInput(text, cl) ==
    IF text = << >>
    THEN UNCHANGED << currentPosition, typedMap, isStarted, startTime, interval >>
    ELSE LET r == CommitLoop(CodePoints(text), cl.pos, cl.map)
         IN  /\ isStarted' = IF cl.started THEN isStarted ELSE TRUE
             /\ startTime' = IF cl.started THEN startTime ELSE now
             /\ typedMap' = r.map
             /\ currentPosition' = r.pos
             /\ MetricsEffect

\* the closure of the current render
Closure == [ pos |-> currentPosition, map |-> typedMap, started |-> isStarted ]

\* what processInput(text), built by the render with state st and called in
\* that render, leaves as cursor, map and session-started flag
ProcessInputResult(text, st) ==
    IF text = << >> THEN st
    ELSE LET r == CommitLoop(CodePoints(text), st.pos, st.map)
         IN  [ pos |-> r.pos, map |-> r.map, started |-> TRUE ]

\* what the data branch of handleBeforeInput leaves, for one character
\* data delivered to the render with state st
BeforeInputDataResult(data, st) ==
    LET srcCh == CharAt(st.pos)
        d == IF data = << "\r" >> THEN << >> ELSE data
    IN  IF d = << >> THEN st
        ELSE IF d \in WhiteSpaceChars /\ srcCh # d THEN st
        ELSE ProcessInputResult(d, st)

\* the characters cps delivered one at a time as direct input, each to the
\* render that follows the one before
RECURSIVE DirectInputEach(_, _)
DirectInputEach(cps, st) ==
    IF cps = << >> THEN st
    ELSE DirectInputEach(Tail(cps), BeforeInputDataResult(Head(cps), st))

----------------------------------------------------------------------------
(* Initial state: the component freshly mounted on a reference text *)

NoEvent == [ op |-> "mount", text |-> << >>, index |-> 0, again |-> FALSE ]

Init ==
    /\ content \in EditRefTexts \cup RefTexts \cup { RefEmpty }
    /\ currentPosition = 0
    /\ typedMap = EmptyMap
    /\ isStarted = FALSE
    /\ startTime = 0
    /\ wpm = 0
    /\ accuracy = 100
    /\ errors = 0
    /\ isComposing = FALSE
    /\ compositionBuffer = << >>
    /\ timeouts = << >>
    /\ hiddenText = << >>
    /\ interval = 0
    /\ now = 1
    /\ instance = [ id |-> 1, mounted |-> TRUE ]
    /\ last = NoEvent
    /\ verbatim = 0
    /\ fwd = [ phase |-> "start", pos |-> 0, map |-> EmptyMap ]

\* the events that seek: a click, Home, End
SeekOps == { "click", "Home", "End" }

\* an event as the history keeps it; index is the data-index of a click,
\* again tells that a seek repeats the seek handled just before it
Event(op, text, index) ==
    LET idx == IF op = "click" THEN index ELSE 0
    IN  [ op |-> op, text |-> text, index |-> idx,
          again |-> op \in SeekOps /\ last.op = op /\ last.index = idx ]

Metrics == << wpm, accuracy, errors >>
Refs == << isComposing, compositionBuffer, timeouts >>
Composition == << isComposing, compositionBuffer, timeouts, hiddenText >>
Session == << currentPosition, typedMap, isStarted, startTime, interval >>

----------------------------------------------------------------------------
(* History variables.  They record what happened and are read by no        *)
(* handler; every action ends by updating them from the step it took.      *)

\* the events that call processInput
CommitOps == { "insertText", "insertParagraph", "insertFromPaste", "input",
               "compositioncommit" }

\* the events that are neither a commit nor a cursor or map operation
NeutralOps == { "sample", "compositionstart", "compositionupdate", "compositionend" }

\* the characters of the reference, as a keyboard delivers them
RefChars == CodePoints(content)

NotVerbatim == 0 - 1

\* verbatim = k: the session so far is the first k characters of the
\* reference typed in order as direct input, with metrics samples in between
VerbatimNext ==
    IF last'.op = "sample" THEN verbatim
    ELSE IF /\ verbatim >= 0 /\ verbatim < Len(RefChars)
            /\ last'.op \in { "insertText", "insertParagraph" }
            /\ last'.text = RefChars[verbatim + 1]
         THEN verbatim + 1
         ELSE NotVerbatim

\* this step is a commit as section 4.2 of the specification defines it: a
\* handler passed one character to processInput while the cursor was before
\* the end, and the character is not white space or is the white space the
\* reference has at the cursor
Committed ==
    /\ last'.op \in CommitOps
    /\ (last'.op # "compositioncommit" => ~isComposing)
    /\ currentPosition < Len(content)
    /\ Len(CodePoints(last'.text)) = 1
    /\ \/ \A i \in 1..Len(last'.text) : last'.text[i] \notin WhiteSpaceUnits
       \/ (last'.text \in WhiteSpaceChars /\ CharAt(currentPosition) = last'.text)

\* this step left the cursor and the map as they were
Unchanged == << currentPosition', typedMap' >> = << currentPosition, typedMap >>

\* fwd.phase: "start"     nothing but neutral events so far
\*            "committed" only forward commits so far; pos, map are the
\*                        cursor and map before the latest of them
\*            "undone"    a Backspace has just followed that commit
\*            "other"     anything else
FwdNext ==
    IF last'.op \in NeutralOps \/ (last'.op \in CommitOps /\ ~Committed /\ Unchanged)
    THEN IF fwd.phase = "undone"
         THEN [ phase |-> "other", pos |-> 0, map |-> EmptyMap ]
         ELSE fwd
    ELSE IF Committed /\ fwd.phase \in { "start", "committed" }
    THEN [ phase |-> "committed", pos |-> currentPosition, map |-> typedMap ]
    ELSE IF last'.op = "Backspace" /\ ~isComposing /\ fwd.phase = "committed"
    THEN [ phase |-> "undone", pos |-> fwd.pos, map |-> fwd.map ]
    ELSE [ phase |-> "other", pos |-> 0, map |-> EmptyMap ]

History ==
    /\ verbatim' = VerbatimNext
    /\ fwd' = FwdNext

----------------------------------------------------------------------------
(* handleBeforeInput *)

\* (mutant) the data branch without the test of isComposingRef
BeforeInputDataWhileComposing(data) ==
    /\ last' = Event("insertText", data, currentPosition)
    /\ LET srcCh == CharAt(currentPosition)
           d == IF data = << "\r" >> THEN << >> ELSE data
       IN  IF d = << >> THEN UNCHANGED << Session, hiddenText >>
           ELSE IF d \in WhiteSpaceChars /\ srcCh # d
                THEN UNCHANGED << Session, hiddenText >>
                ELSE ProcessInput(d, Closure) /\ hiddenText' = << >>
    /\ UNCHANGED << content, instance, Metrics, Refs, now >>
    /\ History

\* an insert* beforeinput event that carries data (insertText and the like)
BeforeInputData(data) ==
    /\ last' = Event("insertText", data, currentPosition)
    /\ IF isComposing THEN UNCHANGED << Session, hiddenText >>
       ELSE LET srcCh == CharAt(currentPosition)
                d == IF data = << "\r" >> THEN << >> ELSE data
            IN  IF d = << >> THEN UNCHANGED << Session, hiddenText >>
                ELSE IF d \in WhiteSpaceChars /\ srcCh # d
                     THEN UNCHANGED << Session, hiddenText >>
                     ELSE ProcessInput(d, Closure) /\ hiddenText' = << >>
    /\ UNCHANGED << content, instance, Metrics, Refs, now >>
    /\ History

\* inputType insertParagraph (the Enter key)
BeforeInputParagraph ==
    /\ last' = Event("insertParagraph", << "\n" >>, currentPosition)
    /\ IF isComposing THEN UNCHANGED << Session, hiddenText >>
       ELSE /\ IF CharAt(currentPosition) = << "\n" >>
               THEN ProcessInput(<< "\n" >>, Closure)
               ELSE UNCHANGED Session
            /\ hiddenText' = << >>
    /\ UNCHANGED << content, instance, Metrics, Refs, now >>
    /\ History

\* inputType insertFromPaste with clipboard data
BeforeInputPaste(pasted) ==
    /\ last' = Event("insertFromPaste", pasted, currentPosition)
    /\ IF isComposing THEN UNCHANGED << Session, hiddenText >>
       ELSE ProcessInput(pasted, Closure) /\ hiddenText' = << >>
    /\ UNCHANGED << content, instance, Metrics, Refs, now >>
    /\ History

(* handleInput: the input event, text is the hidden element's textContent *)
HandleInput(text) ==
    /\ last' = Event("input", text, currentPosition)
    /\ IF isComposing THEN UNCHANGED << Session, hiddenText >>
       ELSE ProcessInput(text, Closure) /\ hiddenText' = << >>
    /\ UNCHANGED << content, instance, Metrics, Refs, now >>
    /\ History

----------------------------------------------------------------------------
(* Composition events.  The browser sends compositionupdate and            *)
(* compositionend only for a composition it has started.                   *)

HandleCompositionStart ==
    /\ ~isComposing
    /\ last' = Event("compositionstart", << >>, currentPosition)
    /\ isComposing' = TRUE
    /\ compositionBuffer' = << >>
    /\ hiddenText' = << >>
    /\ UNCHANGED << content, instance, Session, Metrics, timeouts, now >>
    /\ History

HandleCompositionUpdate(data) ==
    /\ isComposing
    /\ last' = Event("compositionupdate", data, currentPosition)
    /\ compositionBuffer' = data
    /\ hiddenText' = data
    /\ UNCHANGED << content, instance, Session, Metrics, isComposing, timeouts, now >>
    /\ History

\* the callback given to setTimeout keeps e.data and the processInput of
\* this render
HandleCompositionEnd(data) ==
    /\ isComposing
    /\ last' = Event("compositionend", data, currentPosition)
    /\ isComposing' = FALSE
    /\ IF data # << >> /\ TrimNonEmpty(data)
       THEN /\ Len(timeouts) < MaxTimeouts
            /\ timeouts' = Append(timeouts, [ data |-> data, closure |-> Closure,
                                              instance |-> instance.id ])
       ELSE UNCHANGED timeouts
    /\ compositionBuffer' = << >>
    /\ hiddenText' = data
    /\ UNCHANGED << content, instance, Session, Metrics, now >>
    /\ History

\* (mutant) the timer callback writing to whatever instance is mounted, as
\* it would if the session state were kept outside the component
CompositionTimeoutAnyInstance ==
    /\ timeouts # << >>
    /\ LET t == Head(timeouts)
       IN  /\ last' = Event("compositioncommit", t.data, t.closure.pos)
           /\ ProcessInput(t.data, t.closure)
    /\ hiddenText' = << >>
    /\ timeouts' = Tail(timeouts)
    /\ UNCHANGED << content, instance, Metrics, isComposing, compositionBuffer, now >>
    /\ History

\* the timer callback of handleCompositionEnd, 10 ms later.  Its state
\* setters are those of the instance that scheduled it; React ignores them
\* once that instance is unmounted.
CompositionTimeout ==
    /\ timeouts # << >>
    /\ LET t == Head(timeouts)
       IN  /\ last' = Event("compositioncommit", t.data, t.closure.pos)
           /\ IF instance.mounted /\ t.instance = instance.id
              THEN ProcessInput(t.data, t.closure) /\ hiddenText' = << >>
              ELSE UNCHANGED << Session, hiddenText >>
    /\ timeouts' = Tail(timeouts)
    /\ UNCHANGED << content, instance, Metrics, isComposing, compositionBuffer, now >>
    /\ History

----------------------------------------------------------------------------
(* handleKeyDown *)

Keys == { "Backspace", "Delete", "ArrowLeft", "ArrowRight", "Home", "End" }

\* the Backspace branch: cursor and map after it
KeyBackspace(pos, map) ==
    IF pos > 0
    THEN LET np == pos - 1 IN [ pos |-> np, map |-> MapDelete(map, np) ]
    ELSE [ pos |-> pos, map |-> map ]

\* (mutant) Delete that removes the entry before the cursor
KeyDeleteBefore(pos, map) ==
    IF pos < Len(content)
    THEN [ pos |-> pos, map |-> MapDelete(map, pos - 1) ]
    ELSE [ pos |-> pos, map |-> map ]

\* the Delete branch
KeyDelete(pos, map) ==
    IF pos < Len(content)
    THEN [ pos |-> pos, map |-> MapDelete(map, pos) ]
    ELSE [ pos |-> pos, map |-> map ]

\* the ArrowLeft and ArrowRight branches
\* (mutant) ArrowLeft without its test against 0
KeyArrowLeftUnclamped(pos) == pos - 1

KeyArrowLeft(pos) == IF pos > 0 THEN pos - 1 ELSE pos

\* (mutant) ArrowRight without its test against the length
KeyArrowRightUnclamped(pos) == pos + 1

KeyArrowRight(pos) == IF pos < Len(content) THEN pos + 1 ELSE pos

HandleKeyDown(key) ==
    /\ last' = Event(key, << >>, currentPosition)
    /\ UNCHANGED << content, instance, isStarted, startTime, Metrics, Composition, now >>
    /\ IF isComposing THEN UNCHANGED << currentPosition, typedMap, interval >>
       ELSE CASE key = "Backspace" ->
                   LET r == KeyBackspace(currentPosition, typedMap)
                   IN  /\ currentPosition' = r.pos /\ typedMap' = r.map
                       /\ IF currentPosition > 0 THEN MetricsEffect
                          ELSE UNCHANGED interval
              [] key = "Delete" ->
                   LET r == KeyDelete(currentPosition, typedMap)
                   IN  /\ currentPosition' = r.pos /\ typedMap' = r.map
                       /\ IF currentPosition < Len(content) THEN MetricsEffect
                          ELSE UNCHANGED interval
              [] key = "ArrowLeft" ->
                   /\ currentPosition' = KeyArrowLeft(currentPosition)
                   /\ UNCHANGED << typedMap, interval >>
              [] key = "ArrowRight" ->
                   /\ currentPosition' = KeyArrowRight(currentPosition)
                   /\ UNCHANGED << typedMap, interval >>
              [] key = "Home" ->
                   currentPosition' = 0 /\ UNCHANGED << typedMap, interval >>
              [] key = "End" ->
                   currentPosition' = Len(content) /\ UNCHANGED << typedMap, interval >>
    /\ History

\* the data-index values of the .remaining-char spans getDisplayText renders
DataIndices == 0..(Len(content) - 1)

\* data-index values around the rendered ones: one before 0, L and one after L
AnyIndices == (0 - 1)..(Len(content) + 1)

\* (mutant) a click that moves the cursor by index, wrapping at the end,
\* instead of to index
HandleClickRelative(index) ==
    /\ last' = Event("click", << >>, index)
    /\ currentPosition' = (currentPosition + index) % Len(content)
    /\ UNCHANGED << content, instance, typedMap, isStarted, startTime, interval, Metrics,
                    Composition, now >>
    /\ History

(* handleClick on a .remaining-char element whose data-index parses to index *)
HandleClick(index) ==
    /\ last' = Event("click", << >>, index)
    /\ currentPosition' = index
    /\ UNCHANGED << content, instance, typedMap, isStarted, startTime, interval, Metrics,
                    Composition, now >>
    /\ History

----------------------------------------------------------------------------
(* The metrics interval callback (every 120 ms while the effect is armed) *)

IntervalMs == 120       \* one clock tick of the model is one interval period

ErrorCount(m) == Cardinality({ idx \in DOMAIN m : m[idx] # CharAt(idx) })

\* Math.round(size / minutes), minutes = ticks * IntervalMs / 60000
RoundWpm(size, ticks) ==
    (2 * size * 60000 + ticks * IntervalMs) \div (2 * ticks * IntervalMs)

MetricsInterval ==
    /\ interval # 0
    /\ last' = Event("sample", << >>, currentPosition)
    /\ LET timeElapsed == now - startTime
           totalTyped == MapSize(typedMap)
           errorCount == ErrorCount(typedMap)
       IN  /\ wpm' = IF timeElapsed > 0 THEN RoundWpm(totalTyped, timeElapsed) ELSE wpm
           /\ errors' = errorCount
           /\ accuracy' = IF totalTyped > 0
                          THEN RoundPercent(totalTyped - errorCount, totalTyped)
                          ELSE accuracy
    /\ interval' = now
    /\ UNCHANGED << content, instance, currentPosition, typedMap, isStarted, startTime,
                    Composition, now >>
    /\ History

\* the callback of the metrics timer is due: a period has passed since the
\* timer was armed or ran last
SampleDue == interval # 0 /\ now >= interval + 1

\* the wall clock advances by one period, never past a due timer callback
Tick ==
    /\ now < 1 + MaxTime
    /\ ~SampleDue
    /\ now' = now + 1
    /\ UNCHANGED << content, instance, Session, Metrics, Composition, last, verbatim, fwd >>

----------------------------------------------------------------------------
(* Teardown and the next session (features/typing/Practice.tsx) *)

Mounted == instance.mounted

\* handleBack: setCurrentText(null) makes Practice render without
\* TypingPractice, which unmounts the instance.  Its state and refs are out
\* of reach from then on; the timers of handleCompositionEnd are not cleared.
\* (mutant) an unmount without the cleanup of the metrics effect
HandleBackKeepsTimer ==
    /\ Mounted
    /\ last' = Event("back", << >>, currentPosition)
    /\ instance' = [ instance EXCEPT !.mounted = FALSE ]
    /\ UNCHANGED << content, Session, Metrics, Composition, now >>
    /\ History

\* handleBack.  The unmount runs the cleanup of the metrics effect, which
\* clears the interval timer.
HandleBack ==
    /\ Mounted
    /\ last' = Event("back", << >>, currentPosition)
    /\ instance' = [ instance EXCEPT !.mounted = FALSE ]
    /\ interval' = 0
    /\ UNCHANGED << content, currentPosition, typedMap, isStarted, startTime, Metrics,
                    Composition, now >>
    /\ History

\* (mutant) the new text handed to the instance that is there, as a change
\* of its textContent prop: the state and the refs stay
MountKeepsSession(text) ==
    /\ ~Mounted
    /\ instance.id < MaxInstances
    /\ instance' = [ id |-> instance.id + 1, mounted |-> TRUE ]
    /\ content' = text
    /\ last' = NoEvent
    /\ verbatim' = 0
    /\ fwd' = [ phase |-> "start", pos |-> 0, map |-> EmptyMap ]
    /\ UNCHANGED << Session, Metrics, Composition, now >>

\* a text is chosen and Practice mounts a new TypingPractice on it: every
\* useState and useRef starts from its initial value
Mount(text) ==
    /\ ~Mounted
    /\ instance.id < MaxInstances
    /\ instance' = [ id |-> instance.id + 1, mounted |-> TRUE ]
    /\ content' = text
    /\ currentPosition' = 0
    /\ typedMap' = EmptyMap
    /\ isStarted' = FALSE
    /\ startTime' = 0
    /\ wpm' = 0 /\ accuracy' = 100 /\ errors' = 0
    /\ isComposing' = FALSE
    /\ compositionBuffer' = << >>
    /\ hiddenText' = << >>
    /\ interval' = 0
    /\ last' = NoEvent
    /\ verbatim' = 0
    /\ fwd' = [ phase |-> "start", pos |-> 0, map |-> EmptyMap ]
    /\ UNCHANGED << timeouts, now >>

\* progress as rendered: Math.round(typedMap.size / content.length * 100)
----------------------------------------------------------------------------
(* getDisplayText *)

\* charPositionsRef.current once the effect that follows the first render
\* has called updateCharPositions: an entry for every .remaining-char span
CharPositions == DataIndices

\* (mutant) the typed character compared with the reference one position on
IsErrorAgainstNext(i) == MapHas(typedMap, i) /\ typedMap[i] # CharAt(i + 1)

\* isError of the loop, for position i
IsError(i) == MapHas(typedMap, i) /\ typedMap[i] # CharAt(i)

\* what getDisplayText renders: per position the character of the
\* remaining-char span, whether that span is hidden, and the class of the
\* overlay span if there is one; and where the current-char cursor is put
GetDisplayText ==
    [ html |->
        [ i \in DataIndices |->
            [ ch |-> CharAt(i),
              hidden |-> MapHas(typedMap, i),
              overlay |-> IF MapHas(typedMap, i) /\ i \in CharPositions
                          THEN IF IsError(i) THEN "error-char" ELSE "correct-char"
                          ELSE "none" ] ],
      cursor |->
        IF CharPositions = { } THEN [ at |-> "none", index |-> 0 ]
        ELSE IF currentPosition < Len(content) /\ currentPosition \in CharPositions
        THEN [ at |-> "char", index |-> currentPosition ]
        ELSE IF Len(content) > 0 /\ (Len(content) - 1) \in CharPositions
        THEN [ at |-> "end", index |-> Len(content) - 1 ]
        ELSE [ at |-> "none", index |-> 0 ] ]

\* 0 / 0 is NaN and Math.round(NaN) is NaN
ProgressPercent ==
    IF Len(content) = 0 /\ MapSize(typedMap) = 0 THEN NaN
    ELSE RoundPercent(MapSize(typedMap), Len(content))

----------------------------------------------------------------------------
\* typing, editing keys, clicks and the metrics timer, on the longer references
NextEdit ==
    \/ \E data \in InputChars : BeforeInputData(data)
    \/ BeforeInputParagraph
    \/ \E key \in Keys : HandleKeyDown(key)
    \/ \E index \in DataIndices : HandleClick(index)
    \/ MetricsInterval

\* every input, composition, key and click handler and the composition
\* timer.  The metrics timer is left to SpecEdit: it writes wpm, accuracy
\* and errors only, and no handler reads them.
Next ==
    \/ \E data \in InputChars : BeforeInputData(data)
    \/ BeforeInputParagraph
    \/ \E pasted \in InputChars : BeforeInputPaste(pasted)
    \/ HandleInput(hiddenText)
    \/ HandleCompositionStart
    \/ \E data \in CompositionTexts : HandleCompositionUpdate(data)
    \/ \E data \in CompositionTexts : HandleCompositionEnd(data)
    \/ CompositionTimeout
    \/ \E key \in Keys : HandleKeyDown(key)
    \/ \E index \in DataIndices : HandleClick(index)

\* handleClick taken as the seek operation, for element indices in and out
\* of the range of the text, with the keys and direct input
NextSeek ==
    \/ \E index \in AnyIndices : HandleClick(index)
    \/ \E key \in Keys : HandleKeyDown(key)
    \/ \E data \in InputChars : BeforeInputData(data)

\* paste of texts of several characters, with direct input, keys and clicks
NextPaste ==
    \/ \E pasted \in InputTexts : BeforeInputPaste(pasted)
    \/ \E data \in InputChars : BeforeInputData(data)
    \/ BeforeInputParagraph
    \/ \E key \in Keys : HandleKeyDown(key)
    \/ \E index \in DataIndices : HandleClick(index)

\* a composition with its pre-edit text, the input events that arrive while
\* it is open, Backspace and Delete, and the metrics timer
NextIme ==
    \/ \E data \in InputChars : BeforeInputData(data)
    \/ BeforeInputParagraph
    \/ \E pasted \in InputChars : BeforeInputPaste(pasted)
    \/ HandleInput(hiddenText)
    \/ HandleCompositionStart
    \/ \E data \in PreeditTexts : HandleCompositionUpdate(data)
    \/ \E data \in CompositionTexts : HandleCompositionEnd(data)
    \/ CompositionTimeout
    \/ \E key \in { "Backspace", "Delete" } : HandleKeyDown(key)
    \/ MetricsInterval

\* compositions that end with a text of several characters, their timer,
\* direct input and Backspace
NextCompose ==
    \/ HandleCompositionStart
    \/ \E data \in CompositionResults : HandleCompositionEnd(data)
    \/ CompositionTimeout
    \/ \E data \in InputChars : BeforeInputData(data)
    \/ HandleKeyDown("Backspace")

\* a session with compositions and the metrics timer that is torn down and
\* followed by another, on the same text or on a shorter one
NextTeardown ==
    \/ Mounted /\ \E data \in InputChars : BeforeInputData(data)
    \/ Mounted /\ HandleCompositionStart
    \/ Mounted /\ \E data \in PreeditTexts : HandleCompositionUpdate(data)
    \/ Mounted /\ \E data \in CompositionTexts : HandleCompositionEnd(data)
    \/ CompositionTimeout
    \/ MetricsInterval
    \/ HandleBack
    \/ \E text \in MountTexts : Mount(text)

\* every handler and both timers, on the empty reference
NextEmpty ==
    \/ \E data \in InputChars : BeforeInputData(data)
    \/ BeforeInputParagraph
    \/ \E pasted \in InputTexts : BeforeInputPaste(pasted)
    \/ HandleInput(hiddenText)
    \/ HandleCompositionStart
    \/ \E data \in InputChars : HandleCompositionUpdate(data)
    \/ \E data \in InputChars : HandleCompositionEnd(data)
    \/ CompositionTimeout
    \/ \E key \in Keys : HandleKeyDown(key)
    \/ MetricsInterval

\* direct input, Backspace and compositions while the clock advances: the
\* metrics timer fires when it is due
NextClock ==
    \/ \E data \in InputChars : BeforeInputData(data)
    \/ HandleKeyDown("Backspace")
    \/ HandleCompositionStart
    \/ \E data \in CompositionTexts : HandleCompositionEnd(data)
    \/ CompositionTimeout
    \/ SampleDue /\ MetricsInterval
    \/ Tick

InitEdit == Init /\ content \in EditRefTexts
InitEmpty == Init /\ content = RefEmpty
InitInput == Init /\ content \in RefTexts

Spec == InitInput /\ [][Next]_vars
SpecEdit == InitEdit /\ [][NextEdit]_vars
SpecSeek == InitInput /\ [][NextSeek]_vars
SpecPaste == InitInput /\ [][NextPaste]_vars
SpecIme == InitInput /\ [][NextIme]_vars
SpecCompose == InitInput /\ [][NextCompose]_vars
SpecTeardown == InitInput /\ [][NextTeardown]_vars
SpecEmpty == InitEmpty /\ [][NextEmpty]_vars
SpecClock == InitInput /\ [][NextClock]_vars

TypeOK ==
    /\ content \in EditRefTexts \cup RefTexts \cup MountTexts \cup { RefEmpty }
    /\ currentPosition \in Int
    /\ isStarted \in BOOLEAN
    /\ isComposing \in BOOLEAN

----------------------------------------------------------------------------
(* Properties *)

L == Len(content)

\* the map m with exactly the entry at position k set to v
WithEntry(m, k, v) == [ i \in (DOMAIN m) \cup { k } |-> IF i = k THEN v ELSE m[i] ]

\* the map m without an entry at position k
WithoutEntry(m, k) == [ i \in (DOMAIN m) \ { k } |-> m[i] ]

\* t is one character that is not white space
NonWhiteSpaceChar(t) ==
    /\ Len(CodePoints(t)) = 1
    /\ \A i \in 1..Len(t) : t[i] \notin WhiteSpaceUnits

\* C1: for every reference text and every sequence of input, paste,
\* composition, arrow, Home, End, click, Backspace and Delete events, the
\* cursor is an integer in [0, L] in every reachable state.
C1_CursorInRange == currentPosition \in 0..L

\* a composition commit has run at the last position and left the cursor at L
C1_Witness ==
    /\ last.op = "compositioncommit"
    /\ currentPosition = L
    /\ MapHas(typedMap, L - 1)

\* C2 (as claimed): a commit attempt of a non-white-space character c made
\* when the cursor is p < L sets map[p] = c, moves the cursor to p + 1 and
\* leaves every other entry as it was, on every path that commits.
C2_CommitAlwaysSucceeds ==
    [][ ( /\ last'.op \in { "insertText", "insertFromPaste", "input", "compositioncommit" }
          /\ (last'.op # "compositioncommit" => ~isComposing)
          /\ NonWhiteSpaceChar(last'.text)
          /\ currentPosition < L )
        => ( /\ typedMap' = WithEntry(typedMap, currentPosition, last'.text)
             /\ currentPosition' = currentPosition + 1 ) ]_vars

\* C3: a commit attempt of a space, newline or tab that differs from the
\* reference character at the cursor leaves the typed map and the cursor
\* unchanged, on the direct, Enter, paste, input-event and composition
\* paths; a composition that ends with such a text schedules no commit.
C3_WhiteSpaceOps == { "insertText", "insertParagraph", "insertFromPaste", "input",
                      "compositionend", "compositioncommit" }

C3_MismatchedWhiteSpaceDropped ==
    [][ ( /\ last'.op \in C3_WhiteSpaceOps
          /\ last'.text \in WhiteSpaceChars
          /\ CharAt(currentPosition) # last'.text )
        => ( /\ typedMap' = typedMap
             /\ currentPosition' = currentPosition
             /\ timeouts' = timeouts ) ]_vars

\* a pasted white space character that differs from the reference went
\* through processInput (the session is started) and committed nothing
C3_Witness ==
    /\ last.op = "insertFromPaste"
    /\ last.text \in WhiteSpaceChars
    /\ CharAt(currentPosition) # last.text
    /\ isStarted
    /\ fwd.phase = "start"
    /\ typedMap = EmptyMap /\ currentPosition = 0

\* C8 (as claimed): in a state reached from a fresh session by forward
\* commits only, one more commit followed by Backspace gives back the cursor
\* and the map of before that commit.
C8_BackspaceInverse ==
    fwd.phase = "undone" => (currentPosition = fwd.pos /\ typedMap = fwd.map)

\* C4 (as claimed): with reference "a b" and the cursor at position 1, a
\* commit attempt of "x" leaves the typed map and the cursor unchanged.
C4_LetterAtSpaceDropped ==
    [][ ( /\ content = RefAB /\ currentPosition = 1
          /\ last'.op = "insertText" /\ last'.text = << "x" >> )
        => ( typedMap' = typedMap /\ currentPosition' = currentPosition ) ]_vars

\* C4 (amended): with reference "a b", a commit attempt of "x" at position 1
\* is accepted as an error (map[1] = "x", cursor 2, the other entries kept);
\* it is a commit attempt of a white space character that differs from the
\* reference character at the cursor that leaves map and cursor unchanged.
C4_WhiteSpaceGuard ==
    [][ ( content = RefAB /\ last'.op = "insertText" )
        => ( /\ ( currentPosition = 1 /\ last'.text = << "x" >> )
                  => ( /\ typedMap' = WithEntry(typedMap, 1, << "x" >>)
                       /\ currentPosition' = 2 )
             /\ ( last'.text \in WhiteSpaceChars /\ CharAt(currentPosition) # last'.text )
                  => ( typedMap' = typedMap /\ currentPosition' = currentPosition ) ) ]_vars

\* "x" has just been typed at position 1 of "a b" and is in the map
C4_Witness ==
    /\ content = RefAB
    /\ last = Event("insertText", << "x" >>, 1)
    /\ currentPosition = 2
    /\ MapHas(typedMap, 1) /\ typedMap[1] = << "x" >>

\* C5 (as claimed): for every reference text, typing its characters verbatim
\* in order from a fresh session ends with the cursor at L, an entry at
\* every position and progress 100, and a metrics sample then reports
\* 0 errors and accuracy 100.
C5_RoundTrip ==
    verbatim = Len(RefChars)
        => ( /\ currentPosition = L
             /\ DOMAIN typedMap = 0..(L - 1)
             /\ ProgressPercent = 100
             /\ last.op = "sample" => (errors = 0 /\ accuracy = 100) )

\* C6: after a metrics sample of a non-empty map, with no event since,
\* errors is the number of entries that differ from the reference character
\* at their position and accuracy is (mapSize - errors) / mapSize * 100
\* rounded to the nearest integer, halves up; "cat" typed as "c", "o", "t"
\* gives 1 error and accuracy 67.
C6_SampleOfMap ==
    ( last.op = "sample" /\ DOMAIN typedMap # { } )
        => LET size == Cardinality(DOMAIN typedMap)
               wrong == { i \in DOMAIN typedMap : typedMap[i] # << content[i + 1] >> }
           IN  /\ errors = Cardinality(wrong)
               /\ (2 * accuracy - 1) * size <= 200 * (size - errors)
               /\ 200 * (size - errors) < (2 * accuracy + 1) * size
               /\ ( content = RefCat
                    /\ typedMap = (0 :> << "c" >> @@ 1 :> << "o" >> @@ 2 :> << "t" >>) )
                      => ( errors = 1 /\ accuracy = 67 )

\* "cat" typed as "c", "o", "t" and sampled
C6_Witness ==
    /\ content = RefCat
    /\ last.op = "sample"
    /\ typedMap = (0 :> << "c" >> @@ 1 :> << "o" >> @@ 2 :> << "t" >>)
    /\ errors = 1 /\ accuracy = 67

\* C7 (as claimed): a metrics sample taken while the typed map is empty
\* reports accuracy 100 and 0 errors, whatever was sampled before.
C7_EmptyMapSample ==
    ( last.op = "sample" /\ DOMAIN typedMap = { } ) => ( accuracy = 100 /\ errors = 0 )

\* C9 (as claimed): Backspace with the cursor after position 0 moves the
\* cursor back by one and removes the entry at the new position only, and
\* at position 0 changes nothing; the metrics sample that follows counts
\* the entries that remain, so that with no erroneous entry left it reports
\* 0 errors and accuracy 100.
C9_Backspace ==
    [][ /\ ( last'.op = "Backspace" /\ ~isComposing )
            => IF currentPosition > 0
               THEN /\ currentPosition' = currentPosition - 1
                    /\ typedMap' = WithoutEntry(typedMap, currentPosition - 1)
               ELSE currentPosition' = currentPosition /\ typedMap' = typedMap
        /\ ( last.op = "Backspace" /\ last'.op = "sample" )
            => LET wrong == { i \in DOMAIN typedMap : typedMap[i] # << content[i + 1] >> }
               IN  /\ errors' = Cardinality(wrong)
                   /\ wrong = { } => accuracy' = 100 ]_vars

\* C10: Delete with the cursor before L removes the entry at the cursor, if
\* any, keeps every other entry and does not move the cursor; with the
\* cursor at L it changes nothing.
C10_Delete ==
    [][ ( last'.op = "Delete" /\ ~isComposing )
        => /\ currentPosition' = currentPosition
           /\ typedMap' = IF currentPosition < L
                          THEN WithoutEntry(typedMap, currentPosition)
                          ELSE typedMap
           /\ UNCHANGED << isStarted, startTime, wpm, accuracy, errors >> ]_vars

\* Delete has just acted in the middle of a text: the erroneous entry that
\* the last sample counted is gone and the entries around the cursor remain
C10_Witness ==
    /\ last.op = "Delete"
    /\ currentPosition = 1 /\ L = 3
    /\ DOMAIN typedMap = { 0, 2 }
    /\ errors = 1
    /\ \A i \in DOMAIN typedMap : typedMap[i] = << content[i + 1] >>

\* index clamped into [0, L]
Clamp(index) == IF index < 0 THEN 0 ELSE IF index > L THEN L ELSE index

C12_SeekStepOps == { "click", "Home", "End", "ArrowLeft", "ArrowRight" }

C12_SeekStepFrame ==
    [][ last'.op \in C12_SeekStepOps
        => /\ typedMap' = typedMap
           /\ isStarted' = isStarted
           /\ startTime' = startTime
           /\ ( last'.op = "ArrowLeft" /\ ~isComposing )
                => currentPosition' = IF currentPosition = 0 THEN 0
                                      ELSE currentPosition - 1
           /\ ( last'.op = "ArrowRight" /\ ~isComposing )
                => currentPosition' = IF currentPosition = L THEN L
                                      ELSE currentPosition + 1 ]_vars

\* in a started session with entries in the map, ArrowLeft has been
\* handled and the cursor is at 0
C12_Witness ==
    /\ last.op = "ArrowLeft"
    /\ ~isComposing
    /\ currentPosition = 0
    /\ isStarted /\ startTime > 0
    /\ MapHas(typedMap, 0) /\ MapHas(typedMap, L - 1)

\* C13: a seek that repeats the seek handled just before it (a click on
\* the same index, Home after Home, End after End) changes nothing: the
\* cursor, the map, the clock start and the session-started flag after the
\* second seek are those after the first.
C13_SeekIdempotent ==
    [][ last'.again
        => /\ currentPosition' = currentPosition
           /\ typedMap' = typedMap
           /\ startTime' = startTime
           /\ isStarted' = isStarted ]_vars

\* the same character has been clicked twice in a row, in the middle of a
\* started session
C13_Witness ==
    /\ last.op = "click" /\ last.again
    /\ last.index > 0
    /\ currentPosition = last.index
    /\ isStarted
    /\ typedMap # EmptyMap

\* the events that hand text to the commit path outside a composition
DirectCommitOps == { "insertText", "insertParagraph", "insertFromPaste", "input" }

\* every character of t is one that a commit accepts wherever it is typed
AllNonWhiteSpace(t) == \A i \in 1..Len(t) : t[i] \notin WhiteSpaceUnits

\* C14 (as claimed): a commit attempt made while the cursor is at L or
\* beyond changes neither the typed map, the cursor, the session-started
\* flag nor the clock start; a paste that reaches L part-way drops its
\* remaining characters and leaves the cursor at L.
C14_CommitAtEnd ==
    [][ ( last'.op \in DirectCommitOps /\ ~isComposing )
        => /\ currentPosition >= L
                => /\ typedMap' = typedMap
                   /\ currentPosition' = currentPosition
                   /\ isStarted' = isStarted
                   /\ startTime' = startTime
           /\ ( /\ last'.op = "insertFromPaste"
                /\ AllNonWhiteSpace(last'.text)
                /\ currentPosition < L
                /\ Len(CodePoints(last'.text)) > L - currentPosition )
                => /\ currentPosition' = L
                   /\ DOMAIN typedMap' \subseteq 0..(L - 1)
                   /\ \A i \in currentPosition..(L - 1) :
                         typedMap'[i] = CodePoints(last'.text)[i - currentPosition + 1] ]_vars

\* this step committed at least one character
Successful == last'.op \in CommitOps /\ currentPosition' > currentPosition

\* C15 (as claimed): the session-started flag and the clock start change
\* only in a step that commits a character, and the first such step sets
\* them; an input attempt that commits nothing, a seek, a step, Backspace
\* and Delete leave the session not started.
C15_StartedByCommit ==
    [][ /\ ( isStarted' # isStarted \/ startTime' # startTime ) => Successful
        /\ ( Successful /\ ~isStarted ) => ( isStarted' /\ startTime' = now ) ]_vars

\* C18 (as claimed): a paste of text S in state X leaves the map, the
\* cursor and the session-started flag that the characters of S leave when
\* delivered one at a time, in order, as direct character input from X.
C18_PasteAsDirectInput ==
    [][ /\ ( last'.op = "insertText" /\ ~isComposing )
            => [ pos |-> currentPosition', map |-> typedMap', started |-> isStarted' ]
                 = BeforeInputDataResult(last'.text, Closure)
        /\ ( last'.op = "insertFromPaste" /\ ~isComposing )
            => [ pos |-> currentPosition', map |-> typedMap', started |-> isStarted' ]
                 = DirectInputEach(CodePoints(last'.text), Closure) ]_vars

\* C16: while a composition is open, a direct character input, a paste,
\* Enter, an input event, Backspace, Delete and a composition update leave
\* the typed map (and the cursor) unchanged; the text being composed is
\* never an entry of the map, and a metrics sample taken meanwhile counts
\* the entries of the map only.
C16_BlockedOps == { "insertText", "insertParagraph", "insertFromPaste", "input",
                    "Backspace", "Delete", "compositionupdate" }

C16_CompositionIsolated ==
    [][ /\ ( isComposing /\ last'.op \in C16_BlockedOps )
            => ( typedMap' = typedMap /\ currentPosition' = currentPosition )
        /\ \A i \in DOMAIN typedMap' :
              /\ typedMap'[i] \notin PreeditTexts
              /\ compositionBuffer' # << >> => typedMap'[i] # compositionBuffer'
        /\ ( isComposing /\ last'.op = "sample" )
            => LET wrong == { i \in DOMAIN typedMap : typedMap[i] # << content[i + 1] >> }
               IN  /\ errors' = Cardinality(wrong)
                   /\ DOMAIN typedMap # { }
                        => accuracy' = RoundPercent(Cardinality(DOMAIN typedMap \ wrong),
                                                    Cardinality(DOMAIN typedMap)) ]_vars

\* a composition is open with pre-edit text in its buffer, a character
\* typed meanwhile has just been ignored, and the map holds what was
\* committed before
C16_Witness ==
    /\ isComposing
    /\ compositionBuffer \in PreeditTexts
    /\ last.op = "insertText" /\ NonWhiteSpaceChar(last.text)
    /\ currentPosition = 1
    /\ DOMAIN typedMap = { 0 }

\* the cursor and map that pasting text leaves in the state st
Pasted(text, st) ==
    LET r == ProcessInputResult(text, st) IN << r.pos, r.map >>

\* C17 (as claimed): a composition that ends with text S in state X
\* commits S as a paste of S in X does, for every S: when its commit is
\* applied, cursor and map are those of the paste, and it schedules no
\* commit only if the paste would change nothing either.
C17_CompositionAsPaste ==
    [][ /\ ( last'.op = "compositionend" /\ timeouts' = timeouts )
            => Pasted(last'.text, Closure) = << currentPosition, typedMap >>
        /\ last'.op = "compositioncommit"
            => << currentPosition', typedMap' >>
                 = Pasted(last'.text, Head(timeouts).closure) ]_vars

\* What the code does where C17 fails (for comparison, no claim): a
\* composition that ends with a text holding a character that is not white
\* space is committed as a paste of it in the state of its end is; one that
\* ends with an empty text or with white space only commits nothing, also
\* when that white space is what the reference has at the cursor.
CompositionAsPasteUnlessBlank ==
    [][ /\ last'.op = "compositionend"
            => IF last'.text # << >> /\ TrimNonEmpty(last'.text)
               THEN /\ Len(timeouts') = Len(timeouts) + 1
                    /\ timeouts'[Len(timeouts')].data = last'.text
               ELSE timeouts' = timeouts
        /\ last'.op = "compositionend"
            => << currentPosition', typedMap' >> = << currentPosition, typedMap >>
        /\ last'.op = "compositioncommit"
            => /\ TrimNonEmpty(last'.text)
               /\ << currentPosition', typedMap' >>
                    = Pasted(last'.text, Head(timeouts).closure) ]_vars

\* the commit of a composition that ended with a newline and a letter has
\* been applied at position 0: the newline was dropped, the letter committed
CompositionOfTwoCommitted ==
    /\ last.op = "compositioncommit"
    /\ last.text = << "\n", "a" >>
    /\ currentPosition = 1
    /\ DOMAIN typedMap = { 0 } /\ typedMap[0] = << "a" >>

\* C19 (as claimed): every mutation is applied to the state left by the
\* mutation handled just before it; in particular the commit scheduled by
\* a composition's end, when it is applied, commits its text at the cursor
\* and into the map of that moment, so that nothing accepted between the
\* composition's end and its commit is lost or overwritten.
C19_NoInterleaving ==
    [][ last'.op = "compositioncommit"
        => << currentPosition', typedMap' >> = Pasted(last'.text, Closure) ]_vars

\* C20: once the instance is torn down, the commit of a composition that
\* is still pending changes no typed map, neither before nor after another
\* instance is mounted; teardown itself commits nothing and schedules
\* nothing; a new instance starts with an empty map, no composition open
\* and an empty buffer; the text that was being composed is never an entry
\* of a map.
C20_TeardownDiscards ==
    [][ /\ ( /\ last'.op = "compositioncommit"
             /\ ( ~Mounted \/ Head(timeouts).instance # instance.id ) )
            => UNCHANGED << typedMap, currentPosition, isStarted, startTime >>
        /\ last'.op = "back"
            => UNCHANGED << typedMap, currentPosition, timeouts >>
        /\ ( ~Mounted /\ Mounted' )
            => ( typedMap' = EmptyMap /\ ~isComposing' /\ compositionBuffer' = << >> )
        /\ \A i \in DOMAIN typedMap' : typedMap'[i] \notin PreeditTexts ]_vars

\* the commit of a composition of the first instance has just run while
\* the second instance is mounted, fresh, with a composition of its own open
C20_Witness ==
    /\ last.op = "compositioncommit"
    /\ instance = [ id |-> 2, mounted |-> TRUE ]
    /\ typedMap = EmptyMap /\ currentPosition = 0
    /\ isComposing /\ compositionBuffer \in PreeditTexts

C22_NewTextStartsAnew ==
    [][ content' # content =>
          /\ typedMap' = EmptyMap /\ currentPosition' = 0
          /\ ~isStarted' /\ startTime' = 0 /\ interval' = 0
          /\ wpm' = 0 /\ accuracy' = 100 /\ errors' = 0
          /\ ~isComposing' /\ compositionBuffer' = << >> ]_vars

\* the second session runs on the one-letter text; the first ended with its
\* cursor at 2, as the pending composition commit of that session tells
C22_Witness ==
    /\ instance = [ id |-> 2, mounted |-> TRUE ]
    /\ content = RefA /\ last = NoEvent
    /\ timeouts # << >> /\ Head(timeouts).closure.pos = 2
    /\ currentPosition = 0 /\ typedMap = EmptyMap

EmptyReferenceKeepsCursorAndMap ==
    L = 0 =>
       /\ currentPosition = 0 /\ typedMap = EmptyMap
       /\ wpm = 0 /\ accuracy = 100 /\ errors = 0

\* C24: while the session is started the metrics sampler keeps its period
\* whatever the input does: no event other than the sampler's own callback
\* moves the instant at which the pending sample is due.
C24_SamplerKeepsPeriod ==
    [][ (interval # 0 /\ interval' # 0 /\ last'.op # "sample")
          => interval' = interval ]_vars

\* C28: the clock start, once recorded, never changes, and the started flag
\* never returns to false, whatever the order in which direct input and a
\* deferred composition commit arrive.
C28_ClockStartFixed ==
    [][ /\ isStarted => isStarted'
        /\ startTime # 0 => startTime' = startTime ]_vars

\* what does hold: the flag stays true and the clock start never moves back
ClockStartNeverEarlier ==
    [][ /\ isStarted => isStarted'
        /\ startTime' >= startTime ]_vars

\* the status the rendering gives position i
Status(i) ==
    LET c == GetDisplayText.html[i]
    IN  IF ~c.hidden /\ c.overlay = "none" THEN "untouched"
        ELSE IF c.hidden /\ c.overlay = "correct-char" THEN "correct"
        ELSE IF c.hidden /\ c.overlay = "error-char" THEN "incorrect"
        ELSE "nothing"

C26_MapWithinText ==
    /\ DOMAIN typedMap \subseteq 0..(L - 1)
    /\ \A i \in DOMAIN typedMap : Len(CodePoints(typedMap[i])) = 1
    /\ MapSize(typedMap) <= L
    /\ ProgressPercent \in 0..100

\* a paste of two characters has filled the text over an earlier entry
C26_Witness ==
    /\ last.op = "insertFromPaste" /\ Len(last.text) = 2
    /\ fwd.phase = "other"
    /\ MapSize(typedMap) = L /\ ProgressPercent = 100 /\ currentPosition = L

\* C27: a finished composition is committed exactly once, whatever the
\* order of the compositionend event, the input event that carries the
\* composed text and the deferred commit: a composition whose text has
\* something to commit gets its commit scheduled; the deferred commit that
\* comes after the input event has committed the text changes nothing; and
\* an input event that comes after the deferred commit changes nothing.
C27_CommittedOnce ==
    [][ /\ ( /\ isComposing /\ ~isComposing'
             /\ Pasted(last'.text, Closure) # << currentPosition, typedMap >> )
            => Len(timeouts') = Len(timeouts) + 1
        /\ ( /\ timeouts # << >> /\ timeouts' = Tail(timeouts)
             /\ << currentPosition, typedMap >>
                  = Pasted(Head(timeouts).data, Head(timeouts).closure) )
            => Unchanged
        /\ ( last.op = "compositioncommit" /\ last'.op = "input" )
            => Unchanged ]_vars

\* What holds of it (for comparison, no claim): no composition is committed
\* twice, by the deferred commit after the input event or by an input
\* event after the deferred commit.
CompositionNeverTwice ==
    [][ /\ ( /\ timeouts # << >> /\ timeouts' = Tail(timeouts)
             /\ << currentPosition, typedMap >>
                  = Pasted(Head(timeouts).data, Head(timeouts).closure) )
            => Unchanged
        /\ ( last.op = "compositioncommit" /\ last'.op = "input" )
            => Unchanged ]_vars

\* the input event has committed the composed text and the deferred commit
\* of the same composition is still pending
CompositionCommittedByInput ==
    /\ last.op = "input" /\ last.text = << "a" >>
    /\ timeouts # << >> /\ Head(timeouts).data = << "a" >>
    /\ Head(timeouts).closure.pos = 0 /\ currentPosition = 1

\* the events that only move the cursor
CursorOps == { "ArrowLeft", "ArrowRight", "Home", "End", "click" }

\* C29: while a composition is open the arrow keys, Home, End and a click
\* on a character leave the cursor where it is.
C29_CursorFixedWhileComposing ==
    [][ (isComposing /\ last'.op \in CursorOps)
          => currentPosition' = currentPosition ]_vars

\* What holds of it (for comparison, no claim): the keys leave the cursor
\* and the map as they are while a composition is open.
KeysIgnoredWhileComposing ==
    [][ (isComposing /\ last'.op \in Keys) => Unchanged ]_vars

\* the text t without its carriage returns
StripCR(t) == SelectSeq(t, LAMBDA u : u # "\r")

\* C30: a carriage return in the input writes no entry, moves no cursor and
\* uses up no reference position: a paste leaves the cursor and map that
\* the paste of the same text without its carriage returns leaves (CR LF
\* line breaks as LF ones), and a key press or paste of carriage returns
\* alone leaves them as they are.
C30_CarriageReturnDiscarded ==
    [][ /\ last'.op = "insertFromPaste"
            => << currentPosition', typedMap' >> = Pasted(StripCR(last'.text), Closure)
        /\ ( last'.op \in { "insertText", "insertFromPaste" }
             /\ StripCR(last'.text) = << >> )
            => Unchanged ]_vars

\* after the "a", a pasted CR LF has been committed as the newline of the
\* reference
C30_Witness ==
    /\ last.op = "insertFromPaste" /\ last.text = << "\r", "\n" >>
    /\ currentPosition = 2
    /\ typedMap = WithEntry(WithEntry(EmptyMap, 0, << "a" >>), 1, << "\n" >>)

====
